---- MODULE Spec2Model ----
(***************************************************************************)
(* Model of the staffing pipeline of ea_assign_assistant.py: the coroutine *)
(* call_ea_team_info_agent (planner round-trip, plan parsing, credential   *)
(* refresh, parallel Dialogflow calls joined by asyncio.gather, outcome    *)
(* classification, answer extraction and the effort update round-trip).    *)
(*                                                                         *)
(* Texts are sequences of one-character strings, so that str.strip,        *)
(* str.split, str.startswith and slicing are computed, not assumed.        *)
(***************************************************************************)
EXTENDS Integers, Sequences, FiniteSets, TLC

VARIABLES
    pc,                   \* position of the coroutine
    trace,                \* pipeline states passed through so far (history)
    reply,                \* text of the planner's accepted final event (raw)
    n_events,             \* events consumed from the stream being read
    final_response_text,  \* line 246/259
    plan_dict,            \* line 285-289
    access_token,         \* line 317
    client,               \* httpx.AsyncClient of line 337
    tasks,                \* line 335/360: task names in creation order
    sent,                 \* lines 348-358: payload of each call created
    result,               \* what each backend call settled as
    completed,            \* the tasks that have settled, in completion order,
                          \* where that order is followed
    success_results,      \* line 370/380: names, in insertion order
    failures,             \* line 371: failure messages, in order
    extracted_answers,    \* line 401/405
    effort_session,       \* line 424: session of the effort runner
    effort_query,         \* line 418: prompt sent to the effort agent
    effort_response_text, \* line 429/435
    diag,                 \* diagnostics printed, in order
    ops,                  \* external operations started, in order (history)
    stream,               \* the agent events a stream delivers, when given
    sessions,             \* sessions held by the module-level runner, line 226
    runs                  \* concurrent invocations of the coroutine

plannerVars == << reply, final_response_text, plan_dict >>

fanoutVars == << access_token, client, tasks, sent, result, completed,
                 success_results, failures, extracted_answers >>

effortVars == << effort_session, effort_query, effort_response_text >>

\* what the steps of a single invocation leave alone
envVars == << stream, runs >>

vars == << pc, trace, n_events, plannerVars, fanoutVars, effortVars, diag,
           ops, sessions, envVars >>

(***************************************************************************)
(* Python values                                                           *)
(***************************************************************************)

\* Python's None, kept of the same shape as a text so that the two compare.
None == << "<None>" >>

\* bool(x) of a text or None
Truthy(x) == x # None /\ x # << >>

\* characters str.strip() removes, among those the model's texts use
Whitespace == {" ", "\n"}

RECURSIVE LStrip(_)
LStrip(s) ==
    IF s # << >> /\ Head(s) \in Whitespace THEN LStrip(Tail(s)) ELSE s

RECURSIVE RStrip(_)
RStrip(s) ==
    IF s # << >> /\ s[Len(s)] \in Whitespace
    THEN RStrip(SubSeq(s, 1, Len(s) - 1))
    ELSE s

\* str.strip()
Strip(s) == RStrip(LStrip(s))

\* str.split('\n'): the segments between newlines, empty ones included
RECURSIVE SplitLines(_, _)
SplitLines(s, cur) ==
    IF s = << >> THEN << cur >>
    ELSE IF Head(s) = "\n" THEN << cur >> \o SplitLines(Tail(s), << >>)
    ELSE SplitLines(Tail(s), Append(cur, Head(s)))

Split(s) == SplitLines(s, << >>)

\* str.startswith('- ')
StartsWithMarker(line) ==
    Len(line) >= 2 /\ line[1] = "-" /\ line[2] = " "

\* line[2:]
SliceFrom2(line) == SubSeq(line, 3, Len(line))

(***************************************************************************)
(* Plan parsing, lines 274-289                                             *)
(***************************************************************************)

keys == << "ask_availability", "ask_total_effort",
           "ask_past_involvement", "ask_timezone" >>

\* line 275: [line.strip() for line in text.split('\n') if line.strip()]
RECURSIVE StripNonEmpty(_)
StripNonEmpty(segs) ==
    IF segs = << >> THEN << >>
    ELSE IF Strip(Head(segs)) # << >>
         THEN << Strip(Head(segs)) >> \o StripNonEmpty(Tail(segs))
         ELSE StripNonEmpty(Tail(segs))

Lines(text) == StripNonEmpty(Split(text))

\* CleanLine removing every leading marker, as line.lstrip('- ') would
RECURSIVE CleanLineAllMarkers(_)
CleanLineAllMarkers(line) ==
    IF StartsWithMarker(line)
    THEN CleanLineAllMarkers(Strip(SliceFrom2(line)))
    ELSE line

\* lines 279-282, one iteration
CleanLine(line) ==
    IF StartsWithMarker(line) THEN Strip(SliceFrom2(line)) ELSE line

\* lines 277-282
RECURSIVE CleanedLines(_)
CleanedLines(lines) ==
    IF lines = << >> THEN << >>
    ELSE << CleanLine(Head(lines)) >> \o CleanedLines(Tail(lines))

\* line 285: dict.fromkeys(keys)
FromKeys == [k \in {keys[i] : i \in 1..Len(keys)} |-> None]

\* AssignLines with the key index shifted by one
RECURSIVE AssignLinesShifted(_, _, _)
AssignLinesShifted(d, cleaned, i) ==
    IF i >= Len(cleaned) THEN d
    ELSE IF i + 1 < Len(keys)
         THEN AssignLinesShifted([d EXCEPT ![keys[i + 2]] = cleaned[i + 1]],
                                 cleaned, i + 1)
         ELSE AssignLinesShifted(d, cleaned, i + 1)

\* lines 287-289: i is Python's 0-based index of enumerate()
RECURSIVE AssignLines(_, _, _)
AssignLines(d, cleaned, i) ==
    IF i >= Len(cleaned) THEN d
    ELSE IF i < Len(keys)
         THEN AssignLines([d EXCEPT ![keys[i + 1]] = cleaned[i + 1]], cleaned, i + 1)
         ELSE AssignLines(d, cleaned, i + 1)

\* lines 275-289; each intermediate list is a value of its own, as in the code
ParsePlan(text) ==
    CHOOSE plan \in
        { AssignLines(FromKeys, cleaned_lines, 0) :
            cleaned_lines \in { CleanedLines(lines) :
                lines \in { Lines(text) } } } : TRUE

(***************************************************************************)
(* Bounds and inputs                                                       *)
(***************************************************************************)

\* events an agent stream delivers at most before it ends
MaxEvents == 2

\* lines of a planner reply in the parsing specification
MaxLines == 5

planner_agent_name == "EAAssignmentPlanner"
effort_update_agent_name == "EffortUpdateAgent"

\* text.join on newlines, to write the inputs
RECURSIVE JoinLines(_)
JoinLines(ls) ==
    IF ls = << >> THEN << >>
    ELSE IF Len(ls) = 1 THEN ls[1]
    ELSE ls[1] \o << "\n" >> \o JoinLines(Tail(ls))

\* planner replies of the pipeline specification: 0 to 5 questions
PlannerReplies ==
    { JoinLines(SubSeq(<< << "-", " ", "a" >>, << "-", " ", "e" >>,
                          << " ", "-", " ", "p" >>, << "-", " ", "t", " " >>,
                          << "x" >> >>, 1, n)) : n \in 0..5 }

\* lines a planner reply is made of in the parsing specification
LineChoices ==
    { << >>, << " " >>, << "a" >>, << "-", " ", "b" >>,
      << " ", "-", " ", " ", "a", " " >>, << "-", " ", "-", " ", "b" >>,
      << "-" >> }

ParseInputs ==
    { JoinLines(ls) : ls \in UNION { [1..n -> LineChoices] : n \in 0..MaxLines } }

\* texts of an effort agent's final event
EffortReplies == { << >>, << " " >>, << " ", "u" >> }

\* an event of runner.run_async, as far as the consumer reads it:
\* is_final_response(), author, content/parts/text and error_code
Authors == { planner_agent_name, effort_update_agent_name, "System" }

Events ==
    [ final : BOOLEAN, author : Authors,
      content : { "None", "NoParts", "TextNone", "Text" },
      error_code : BOOLEAN ]

(***************************************************************************)
(* Backend responses                                                       *)
(***************************************************************************)

\* what a client.post task can settle as
Outcomes ==
    { "exception", "http_500", "bad_json", "answer", "answer_padded",
      "blank_text", "empty_text", "no_query_result", "no_messages" }

EmptyDict == << >>

\* the decoded body of a 2xx response whose body is JSON
Body(o) ==
    CASE o = "answer" ->
           [queryResult |-> [responseMessages |->
               << [text |-> [text |-> << << "s" >> >>]] >>]]
      [] o = "answer_padded" ->
           [queryResult |-> [responseMessages |->
               << [text |-> [text |-> << << " ", "s", "\n" >> >>]] >>]]
      [] o = "blank_text" ->
           [queryResult |-> [responseMessages |->
               << [text |-> [text |-> << << " " >> >>]] >>]]
      [] o = "empty_text" ->
           [queryResult |-> [responseMessages |->
               << [text |-> [text |-> << << >> >>]] >>]]
      [] o = "no_messages" ->
           [queryResult |-> [responseMessages |-> << >>]]
      [] OTHER -> EmptyDict

\* lines 374-384: the branch of the classification loop a response takes
\* Classify without the except clause for json.JSONDecodeError taking effect
ClassifyJsonUnchecked(o) ==
    CASE o = "exception" -> "exception"
      [] o = "http_500"  -> "http_status"
      [] OTHER           -> "success"

Classify(o) ==
    CASE o = "exception" -> "exception"
      [] o = "http_500"  -> "http_status"
      [] o = "bad_json"  -> "json_decode"
      [] OTHER           -> "success"

\* dict.get(key, default)
Get(d, k, default) == IF k \in DOMAIN d THEN d[k] ELSE default

IndexError == << "<IndexError>" >>
Placeholder == << "<No answer text found in response.>" >>

\* lines 404-405
ExtractAnswer(json_response) ==
    LET msgs == Get(Get(json_response, "queryResult", EmptyDict),
                    "responseMessages", << EmptyDict >>)
    IN  IF Len(msgs) = 0 THEN IndexError
        ELSE LET texts == Get(Get(msgs[1], "text", EmptyDict), "text", << << >> >>)
             IN  IF Len(texts) = 0 THEN IndexError
                 ELSE LET answer_text == texts[1]
                      IN  IF Truthy(answer_text) THEN Strip(answer_text)
                          ELSE Placeholder

(***************************************************************************)
(* Fan-out helpers, lines 328-408                                          *)
(***************************************************************************)

\* line 329-333: the keys of queries_to_run, in insertion order
TaskNames == << "availability", "past_involvement", "timezone_match" >>

TaskNameSet == { TaskNames[i] : i \in 1..Len(TaskNames) }

\* queries_to_run reading the wrong plan key for past_involvement
queries_to_run_effort(plan) ==
    [ availability     |-> plan["ask_availability"],
      past_involvement |-> plan["ask_total_effort"],
      timezone_match   |-> plan["ask_timezone"] ]

\* line 329-333: the question of each key
queries_to_run(plan) ==
    [ availability     |-> plan["ask_availability"],
      past_involvement |-> plan["ask_past_involvement"],
      timezone_match   |-> plan["ask_timezone"] ]

\* CreateTasks without the test of line 340: a call for every key
RECURSIVE CreateTasksUnfiltered(_, _)
CreateTasksUnfiltered(queries, i) ==
    IF i > Len(TaskNames) THEN << >>
    ELSE << TaskNames[i] >> \o CreateTasksUnfiltered(queries, i + 1)

\* lines 338-360: one task per key whose question is truthy
RECURSIVE CreateTasks(_, _)
CreateTasks(queries, i) ==
    IF i > Len(TaskNames) THEN << >>
    ELSE IF Truthy(queries[TaskNames[i]])
         THEN << TaskNames[i] >> \o CreateTasks(queries, i + 1)
         ELSE CreateTasks(queries, i + 1)

\* lines 348-356: the payload of the call of a task
Payload(queries, name) ==
    [ task |-> name, text |-> queries[name], timeZone |-> "America/Chicago" ]

\* the n-th value uuid.uuid4() returns in a run; different draws give
\* different values
Uuid4(n) == [ kind |-> "uuid4", n |-> n ]

\* the session ids of the two agent sessions (lines 240 and 423)
PlannerSessionId == [ kind |-> "session_id", n |-> 0 ]
EffortSessionId == [ kind |-> "effort-update-session_id", n |-> 0 ]

\* Call with the session id drawn once, before the loop over the questions
CallSharedSession(queries, ts, i) ==
    [ task |-> ts[i], text |-> Payload(queries, ts[i]).text,
      timeZone |-> Payload(queries, ts[i]).timeZone, session |-> Uuid4(1) ]

\* lines 340-360: the i-th call created, with the session id drawn for it at
\* line 341 and put into its endpoint at line 342
Call(queries, ts, i) ==
    [ task |-> ts[i], text |-> Payload(queries, ts[i]).text,
      timeZone |-> Payload(queries, ts[i]).timeZone, session |-> Uuid4(i) ]

\* GatherReturns as gather without return_exceptions: the first exception
\* is propagated at once
GatherReturnsOnException(ts, res) ==
    \/ \E i \in 1..Len(ts) : res[ts[i]] = "exception"
    \/ \A i \in 1..Len(ts) : res[ts[i]] # "pending"

\* GatherReturns for a wait with a timeout, which returns with the tasks
\* that have settled by then
GatherReturnsOnTimeout(ts, res) == TRUE

\* GatherReturns for a join that does not return once a task has raised
GatherReturnsUnlessRaised(ts, res) ==
    \A i \in 1..Len(ts) : res[ts[i]] \notin { "pending", "exception" }

\* GatherReturns for a wait that returns when the first task has settled
GatherReturnsFirstCompleted(ts, res) ==
    \E i \in 1..Len(ts) : res[ts[i]] # "pending"

\* line 365: asyncio.gather(*tasks, return_exceptions=True) returns once
\* every task has settled
GatherReturns(ts, res) ==
    \A i \in 1..Len(ts) : res[ts[i]] # "pending"

\* the completion order of the tasks is not followed
NotFollowed == << "<not followed>" >>

\* Responses with the results in the order in which the calls settled
ResponsesAsCompleted(ts, res) ==
    [ i \in 1..Len(ts) |->
        IF completed = NotFollowed THEN res[ts[i]] ELSE res[completed[i]] ]

\* line 365: the results, in the order of the tasks
Responses(ts, res) == [ i \in 1..Len(ts) |-> res[ts[i]] ]

\* FailuresOf leaving the loop at the first failure
RECURSIVE FailuresFirstOnly(_, _, _)
FailuresFirstOnly(ts, responses, i) ==
    IF i > Len(responses) THEN << >>
    ELSE IF Classify(responses[i]) # "success"
         THEN << [task |-> ts[i], kind |-> Classify(responses[i])] >>
         ELSE FailuresFirstOnly(ts, responses, i + 1)

\* lines 372-384: the messages appended to failures
RECURSIVE FailuresOf(_, _, _)
FailuresOf(ts, responses, i) ==
    IF i > Len(responses) THEN << >>
    ELSE IF Classify(responses[i]) # "success"
         THEN << [task |-> ts[i], kind |-> Classify(responses[i])] >>
              \o FailuresOf(ts, responses, i + 1)
         ELSE FailuresOf(ts, responses, i + 1)

\* lines 372-380: the entries stored in success_results
RECURSIVE SuccessesOf(_, _, _)
SuccessesOf(ts, responses, i) ==
    IF i > Len(responses) THEN << >>
    ELSE IF Classify(responses[i]) = "success"
         THEN << [task |-> ts[i], response |-> responses[i]] >>
              \o SuccessesOf(ts, responses, i + 1)
         ELSE SuccessesOf(ts, responses, i + 1)

\* MustAbort with the test "more than one failure"
MustAbortOnSeveral(fs) == Len(fs) > 1

\* line 396: if failures
MustAbort(fs) == fs # << >>

NoAnswers == [ k \in TaskNameSet |-> None ]

\* lines 401-405: the loop stops at the first entry whose extraction raises
RECURSIVE ExtractLoop(_, _, _)
ExtractLoop(succ, i, acc) ==
    IF i > Len(succ) THEN [ answers |-> acc, raised |-> FALSE ]
    ELSE LET a == ExtractAnswer(Body(succ[i].response))
         IN  IF a = IndexError THEN [ answers |-> acc, raised |-> TRUE ]
             ELSE ExtractLoop(succ, i + 1, [acc EXCEPT ![succ[i].task] = a])

\* line 414: if ask_total_effort_str and availability_result_str
RunsEffortUpdate(plan, answers) ==
    Truthy(plan["ask_total_effort"]) /\ Truthy(answers["availability"])

\* IsFinalFrom without the test of the author
IsFinalFromAnyAuthor(ev, agent) ==
    ev.final /\ ev.content \notin { "None", "NoParts" }

\* lines 258 and 434: the event the consumer accepts
IsFinalFrom(ev, agent) ==
    ev.final /\ ev.author = agent /\ ev.content \notin { "None", "NoParts" }

\* EffortResponded with the test: effort_response_text != ""
EffortRespondedNotEmpty(text) == text # << >>

\* line 438: if effort_response_text
EffortResponded(text) == Truthy(text)

\* NoFinalResponse with the test: final_response_text == ""
NoFinalResponseEmpty(text) == text = << >>

\* line 269: if final_response_text is None
NoFinalResponse(text) == text = None

(***************************************************************************)
(* Diagnostics                                                             *)
(***************************************************************************)

Msg(m) == [ msg |-> m, task |-> "" ]

\* line 267
ErrorEventMsg == Msg("Error from author")
\* line 270
NoFinalResponseMsg == Msg("Pipeline finished but did not produce the expected final text response")
\* line 397
AbortingMsg == Msg("One or more API calls failed. Aborting before final synthesis")
\* line 442
NoEffortResponseMsg == Msg("Effort update agent did not produce a response")
\* line 444
NoQuestionsMsg == Msg("No questions to ask the agent")
\* line 447
ApiInvocationErrorMsg == Msg("An error occurred during API invocation")
\* line 450
AgentExecutionErrorMsg == Msg("An error occurred during agent execution")

\* lines 391-393: one line per failure message
RECURSIVE FailureLines(_)
FailureLines(fs) ==
    IF fs = << >> THEN << >>
    ELSE << [ msg |-> fs[1].kind, task |-> fs[1].task ] >> \o FailureLines(Tail(fs))

(***************************************************************************)
(* Event streams, sessions and external operations                         *)
(***************************************************************************)

\* an event of run_async together with the text of its first part
WithText(ev, t) ==
    [ final |-> ev.final, author |-> ev.author, content |-> ev.content,
      error_code |-> ev.error_code, text |-> t ]

\* no stream is fixed in advance: run_async may deliver any event
AnyStream == [ given |-> FALSE, events |-> << >> ]

\* the events the loop over run_async can receive next (lines 250, 431)
OfferedEvents(texts) ==
    IF stream.given
    THEN IF n_events < Len(stream.events)
         THEN { stream.events[n_events + 1] }
         ELSE { }
    ELSE IF n_events < MaxEvents
         THEN { WithText(ev, t) : ev \in Events, t \in texts }
         ELSE { }

\* the stream has nothing more to deliver
Exhausted == stream.given => n_events = Len(stream.events)

\* lines 263-267: an event with an error code is reported and the loop goes on
ReportErrorEvent(d, ev) ==
    IF ev.error_code THEN Append(d, ErrorEventMsg) ELSE d

\* lines 48-49
USER_ID == "ea_manager"
SESSION_ID == "get_ea_team_info"

UserIds == { USER_ID, "user_b" }
SessionIds == { SESSION_ID, "session_b" }

\* the session service of the module-level runner keeps its sessions by
\* user id and session id (lines 226, 238-241; the application name is fixed)
SessionKeys == UserIds \X SessionIds

Absent == << "<absent>" >>

NoSessions == [ key \in SessionKeys |-> Absent ]

\* an external operation: an agent invocation, the credential refresh, a POST
Op(o, arg) == [ op |-> o, arg |-> arg ]

RunAsyncOp(agent) == Op("run_async", agent)
RefreshOp == Op("refresh", "credentials")
PostOp(task) == Op("post", task)

\* lines 338-360: one POST per task created
PostOps(ts) == [ i \in 1..Len(ts) |-> PostOp(ts[i]) ]

\* what credentials.token may hold after the refresh (line 317)
Tokens == { None, << >>, << "t" >> }

\* HasToken without the test of line 318
HasTokenAlways(token) == TRUE

\* line 318: if not access_token: raise
HasToken(token) == Truthy(token)

(***************************************************************************)
(* The coroutine call_ea_team_info_agent, lines 232-450                    *)
(***************************************************************************)

Init ==
    /\ pc = "Start"
    /\ trace = << "Start" >>
    /\ reply = None
    /\ n_events = 0
    /\ final_response_text = None
    /\ plan_dict = FromKeys
    /\ access_token = None
    /\ client = "none"
    /\ tasks = << >>
    /\ sent = << >>
    /\ completed = NotFollowed
    /\ result = [ k \in TaskNameSet |-> "none" ]
    /\ success_results = << >>
    /\ failures = << >>
    /\ extracted_answers = NoAnswers
    /\ effort_session = "none"
    /\ effort_query = << >>
    /\ effort_response_text = None
    /\ diag = << >>
    /\ ops = << >>
    /\ stream = AnyStream
    /\ sessions = NoSessions
    /\ runs = << >>

\* the run ends in the terminal state t
Ends(t) ==
    /\ pc' = t
    /\ trace' = Append(trace, t)

\* lines 238-248: the planner session is created and the stream is opened
CreateSession ==
    /\ pc = "Start"
    /\ sessions' = [ sessions EXCEPT ![<< USER_ID, SESSION_ID >>] = << >> ]
    /\ ops' = Append(ops, RunAsyncOp(planner_agent_name))
    /\ pc' = "PlannerStream"
    /\ UNCHANGED << trace, n_events, plannerVars, fanoutVars, effortVars, diag,
                    envVars >>

\* PlannerSkipsEvent with the loop left at an event that carries an error
PlannerSkipsEventStopsOnError ==
    /\ pc = "PlannerStream"
    /\ \E ev \in OfferedEvents(PlannerReplies) :
         /\ ~IsFinalFrom(ev, planner_agent_name)
         /\ diag' = ReportErrorEvent(diag, ev)
         /\ pc' = IF ev.error_code THEN "PlannerDone" ELSE pc
    /\ n_events' = n_events + 1
    /\ UNCHANGED << trace, plannerVars, fanoutVars, effortVars,
                    ops, sessions, envVars >>

\* lines 250-267, an event that is not the accepted final response
PlannerSkipsEvent ==
    /\ pc = "PlannerStream"
    /\ \E ev \in OfferedEvents(PlannerReplies) :
         /\ ~IsFinalFrom(ev, planner_agent_name)
         /\ diag' = ReportErrorEvent(diag, ev)
    /\ n_events' = n_events + 1
    /\ UNCHANGED << pc, trace, plannerVars, fanoutVars, effortVars,
                    ops, sessions, envVars >>

\* lines 258-261: the final response is accepted and the loop is left
PlannerFinalResponse ==
    /\ pc = "PlannerStream"
    /\ \E ev \in OfferedEvents(PlannerReplies) :
         /\ IsFinalFrom(ev, planner_agent_name)
         /\ ev.content = "Text"
         /\ reply' = ev.text
         /\ final_response_text' = Strip(ev.text)
    /\ n_events' = n_events + 1
    /\ pc' = "PlannerDone"
    /\ UNCHANGED << trace, plan_dict, fanoutVars, effortVars, diag,
                    ops, sessions, envVars >>

\* line 250: the stream ends without an accepted event
PlannerStreamEnds ==
    /\ pc = "PlannerStream"
    /\ Exhausted
    /\ pc' = "PlannerDone"
    /\ UNCHANGED << trace, n_events, plannerVars, fanoutVars, effortVars, diag,
                    ops, sessions, envVars >>

\* run_async raises, or the accepted part has no text (line 259 raises):
\* lines 449-450
PlannerRaises ==
    /\ pc = "PlannerStream"
    /\ IF stream.given
       THEN /\ \E ev \in OfferedEvents(PlannerReplies) :
                 /\ IsFinalFrom(ev, planner_agent_name)
                 /\ ev.content = "TextNone"
            /\ n_events' = n_events + 1
       ELSE n_events' = n_events
    /\ diag' = Append(diag, AgentExecutionErrorMsg)
    /\ Ends("Aborted")
    /\ UNCHANGED << plannerVars, fanoutVars, effortVars,
                    ops, sessions, envVars >>

\* lines 269-292: without a final response the run ends, with one the
\* reply is parsed
PlannerReport ==
    /\ pc = "PlannerDone"
    /\ IF NoFinalResponse(final_response_text)
       THEN /\ diag' = Append(diag, NoFinalResponseMsg)
            /\ Ends("Aborted")
            /\ plan_dict' = plan_dict
       ELSE /\ plan_dict' = ParsePlan(final_response_text)
            /\ pc' = "Planned"
            /\ trace' = Append(trace, "Planned")
            /\ diag' = diag
    /\ UNCHANGED << n_events, reply, final_response_text, fanoutVars, effortVars,
                    ops, sessions, envVars >>

\* lines 313-320: the token is fetched
CredentialRefreshed ==
    /\ pc = "Planned"
    /\ \E token \in Tokens :
         /\ HasToken(token)
         /\ access_token' = token
    /\ ops' = Append(ops, RefreshOp)
    /\ pc' = "Credentialed"
    /\ UNCHANGED << trace, n_events, plannerVars, client, tasks, sent, result,
                    completed,
                    success_results, failures, extracted_answers, effortVars,
                    diag, sessions, envVars >>

\* CredentialFails with the refresh tried again instead of the run ending
CredentialFailsRetries ==
    /\ pc = "Planned"
    /\ ops' = Append(ops, RefreshOp)
    /\ UNCHANGED << pc, trace, n_events, plannerVars, fanoutVars, effortVars,
                    diag, sessions, envVars >>

\* lines 314-319 raise (no credentials, refresh fails, empty token):
\* lines 446-447
CredentialFails ==
    /\ pc = "Planned"
    /\ \/ /\ ops' = ops
          /\ access_token' = access_token
       \/ /\ ops' = Append(ops, RefreshOp)
          /\ \/ access_token' = access_token
             \/ \E token \in Tokens :
                  /\ ~HasToken(token)
                  /\ access_token' = token
    /\ diag' = Append(diag, ApiInvocationErrorMsg)
    /\ Ends("Aborted")
    /\ UNCHANGED << n_events, plannerVars, client, tasks, sent, result,
                    completed,
                    success_results, failures, extracted_answers, effortVars,
                    sessions, envVars >>

\* lines 328-366 and 443-444: the tasks are created; with none, the run ends
Dispatch ==
    /\ pc = "Credentialed"
    /\ LET queries == queries_to_run(plan_dict)
           ts == CreateTasks(queries, 1)
       IN  /\ tasks' = ts
           /\ sent' = [ i \in 1..Len(ts) |-> Call(queries, ts, i) ]
           /\ ops' = ops \o PostOps(ts)
           /\ result' = [ k \in TaskNameSet |->
                            IF \E i \in 1..Len(ts) : ts[i] = k
                            THEN "pending" ELSE "none" ]
           /\ IF ts # << >>
              THEN /\ client' = "open"
                   /\ pc' = "Gathering"
                   /\ trace' = Append(trace, "Dispatched")
                   /\ diag' = diag
              ELSE /\ client' = "closed"
                   /\ diag' = Append(diag, NoQuestionsMsg)
                   /\ Ends("Done")
    /\ UNCHANGED << n_events, plannerVars, access_token, completed,
                    success_results, failures, extracted_answers, effortVars,
                    sessions, envVars >>

\* a client.post task settles: a response arrives or the call raises
Settle ==
    /\ pc = "Gathering"
    /\ \E k \in TaskNameSet, o \in Outcomes :
         /\ result[k] = "pending"
         /\ result' = [ result EXCEPT ![k] = o ]
         /\ completed' = IF completed = NotFollowed THEN completed
                       ELSE Append(completed, k)
    /\ UNCHANGED << pc, trace, n_events, plannerVars, access_token, client,
                    tasks, sent, success_results, failures, extracted_answers,
                    effortVars, diag,
                    ops, sessions, envVars >>

\* lines 365-398: gather returns, the outcomes are classified, and with a
\* failure the run aborts (lines 446-447)
ProcessFailures ==
    /\ pc = "Gathering"
    /\ GatherReturns(tasks, result)
    /\ \E responses \in { Responses(tasks, result) } :
       \E fs \in { FailuresOf(tasks, responses, 1) } :
           /\ MustAbort(fs)
           /\ failures' = fs
           /\ success_results' = SuccessesOf(tasks, responses, 1)
           /\ diag' = diag \o FailureLines(fs)
                      \o << AbortingMsg, ApiInvocationErrorMsg >>
    /\ client' = "closed"
    /\ Ends("Aborted")
    /\ UNCHANGED << n_events, plannerVars, access_token, tasks, sent, result,
                    completed,
                    extracted_answers, effortVars,
                    ops, sessions, envVars >>

\* lines 365-408: gather returns, every call succeeded, the answers are
\* extracted; an extraction that raises ends the run (lines 446-447)
ProcessAnswers ==
    /\ pc = "Gathering"
    /\ GatherReturns(tasks, result)
    /\ \E responses \in { Responses(tasks, result) } :
       \E fs \in { FailuresOf(tasks, responses, 1) },
          succ \in { SuccessesOf(tasks, responses, 1) } :
       \E ex \in { ExtractLoop(succ, 1, NoAnswers) } :
           /\ ~MustAbort(fs)
           /\ failures' = fs
           /\ success_results' = succ
           /\ extracted_answers' = ex.answers
           /\ IF ex.raised
              THEN /\ diag' = Append(diag, ApiInvocationErrorMsg)
                   /\ client' = "closed"
                   /\ Ends("Aborted")
              ELSE /\ diag' = diag
                   /\ client' = client
                   /\ pc' = "Extracted"
                   /\ trace' = trace
    /\ UNCHANGED << n_events, plannerVars, access_token, tasks, sent, result,
                    completed,
                    effortVars,
                    ops, sessions, envVars >>

\* lines 411-428: the effort update agent is given the instruction and the
\* schedule, in a session of its own
StartEffortUpdate ==
    /\ pc = "Extracted"
    /\ RunsEffortUpdate(plan_dict, extracted_answers)
    /\ effort_query' = << plan_dict["ask_total_effort"],
                          extracted_answers["availability"] >>
    /\ effort_session' = "created"
    /\ ops' = Append(ops, RunAsyncOp(effort_update_agent_name))
    /\ n_events' = 0
    /\ pc' = "EffortStream"
    /\ UNCHANGED << trace, plannerVars, fanoutVars, effort_response_text, diag,
                    sessions, envVars >>

\* line 414 is false: nothing more is done
SkipEffortUpdate ==
    /\ pc = "Extracted"
    /\ ~RunsEffortUpdate(plan_dict, extracted_answers)
    /\ client' = "closed"
    /\ pc' = "Done"
    /\ trace' = trace \o << "SkippedEffort", "Done" >>
    /\ UNCHANGED << n_events, plannerVars, access_token, tasks, sent, result,
                    completed, success_results, failures, extracted_answers, effortVars,
                    diag,
                    ops, sessions, envVars >>

\* lines 431-434, an event that is not the accepted final response
EffortSkipsEvent ==
    /\ pc = "EffortStream"
    /\ \E ev \in OfferedEvents(EffortReplies) :
         ~IsFinalFrom(ev, effort_update_agent_name)
    /\ n_events' = n_events + 1
    /\ UNCHANGED << pc, trace, plannerVars, fanoutVars, effortVars, diag,
                    ops, sessions, envVars >>

\* lines 434-436: the final response is accepted and the loop is left
EffortFinalResponse ==
    /\ pc = "EffortStream"
    /\ \E ev \in OfferedEvents(EffortReplies) :
         /\ IsFinalFrom(ev, effort_update_agent_name)
         /\ ev.content = "Text"
         /\ effort_response_text' = Strip(ev.text)
    /\ n_events' = n_events + 1
    /\ pc' = "EffortDone"
    /\ UNCHANGED << trace, plannerVars, fanoutVars, effort_session,
                    effort_query, diag,
                    ops, sessions, envVars >>

\* line 431: the stream ends without an accepted event
EffortStreamEnds ==
    /\ pc = "EffortStream"
    /\ Exhausted
    /\ pc' = "EffortDone"
    /\ UNCHANGED << trace, n_events, plannerVars, fanoutVars, effortVars, diag,
                    ops, sessions, envVars >>

\* lines 438-442: the updated schedule is printed, or that there is none
EffortReport ==
    /\ pc = "EffortDone"
    /\ IF EffortResponded(effort_response_text)
       THEN /\ diag' = diag
            /\ pc' = "Done"
            /\ trace' = trace \o << "EffortUpdated", "Done" >>
       ELSE /\ diag' = Append(diag, NoEffortResponseMsg)
            /\ Ends("Aborted")
    /\ client' = "closed"
    /\ UNCHANGED << n_events, plannerVars, access_token, tasks, sent, result,
                    completed,
                    success_results, failures, extracted_answers, effortVars,
                    ops, sessions, envVars >>

\* EffortRaises without the handler of lines 446-447: the exception leaves
\* the coroutine
EffortRaisesUncaught ==
    /\ pc = "EffortStream"
    /\ Ends("Raised")
    /\ client' = "closed"
    /\ UNCHANGED << n_events, plannerVars, access_token, tasks, sent, result,
                    completed,
                    success_results, failures, extracted_answers, effortVars,
                    diag, ops, sessions, envVars >>

\* run_async of the effort runner raises, or the accepted part has no text
\* (line 435 raises): lines 446-447
EffortRaises ==
    /\ pc = "EffortStream"
    /\ IF stream.given
       THEN /\ \E ev \in OfferedEvents(EffortReplies) :
                 /\ IsFinalFrom(ev, effort_update_agent_name)
                 /\ ev.content = "TextNone"
            /\ n_events' = n_events + 1
       ELSE n_events' = n_events
    /\ diag' = Append(diag, ApiInvocationErrorMsg)
    /\ client' = "closed"
    /\ Ends("Aborted")
    /\ UNCHANGED << plannerVars, access_token, tasks, sent, result,
                    completed,
                    success_results, failures, extracted_answers, effortVars,
                    ops, sessions, envVars >>

Next ==
    \/ CreateSession
    \/ PlannerSkipsEvent
    \/ PlannerFinalResponse
    \/ PlannerStreamEnds
    \/ PlannerRaises
    \/ PlannerReport
    \/ CredentialRefreshed
    \/ CredentialFails
    \/ Dispatch
    \/ Settle
    \/ ProcessFailures
    \/ ProcessAnswers
    \/ StartEffortUpdate
    \/ SkipEffortUpdate
    \/ EffortSkipsEvent
    \/ EffortFinalResponse
    \/ EffortStreamEnds
    \/ EffortRaises
    \/ EffortReport

Spec == Init /\ [][Next]_vars

\* the event loop resumes the coroutine whenever the operation it awaits has
\* completed, and every awaited operation completes: a step that can be taken
\* is eventually taken
FairSpec == Spec /\ WF_vars(Next)

(***************************************************************************)
(* Plan parsing on its own: lines 259 and 274-289 applied to a reply       *)
(***************************************************************************)

InitParse ==
    /\ pc = "ParseInput"
    /\ trace = << >>
    /\ reply \in ParseInputs
    /\ n_events = 0
    /\ final_response_text = None
    /\ plan_dict = FromKeys
    /\ access_token = None
    /\ client = "none"
    /\ tasks = << >>
    /\ sent = << >>
    /\ completed = NotFollowed
    /\ result = [ k \in TaskNameSet |-> "none" ]
    /\ success_results = << >>
    /\ failures = << >>
    /\ extracted_answers = NoAnswers
    /\ effort_session = "none"
    /\ effort_query = << >>
    /\ effort_response_text = None
    /\ diag = << >>
    /\ ops = << >>
    /\ stream = AnyStream
    /\ sessions = NoSessions
    /\ runs = << >>

\* lines 259 and 275-289
ParseReply ==
    /\ pc = "ParseInput"
    /\ final_response_text' = Strip(reply)
    /\ plan_dict' = ParsePlan(Strip(reply))
    /\ pc' = "Parsed"
    /\ UNCHANGED << trace, n_events, reply, fanoutVars, effortVars, diag,
                    ops, sessions, envVars >>

NextParse == ParseReply

SpecParse == InitParse /\ [][NextParse]_vars

(***************************************************************************)
(* The two event loops on their own: lines 250-261 and 431-436 applied to  *)
(* a stream of events fixed in advance                                     *)
(***************************************************************************)

MaxStream == 2

\* the second text shows the trimming of lines 259 and 435
StreamTexts == { << "a" >>, << " ", "b" >> }

\* events authored by one of the two agents, each being the other agent
\* for the loop that does not expect it
StreamShapes == { e \in Events : e.author # "System" }

StreamEvents ==
    { WithText(ev, None) : ev \in { e \in StreamShapes : e.content # "Text" } }
    \cup { WithText(ev, t) : ev \in { e \in StreamShapes : e.content = "Text" },
                             t \in StreamTexts }

StreamInputs == UNION { [ 1..n -> StreamEvents ] : n \in 0..MaxStream }

\* the planner reply and backend answer with which the effort loop is entered
EffortEntryReply == << "-", " ", "a", "\n", "-", " ", "e" >>
EffortEntryResult ==
    [ k \in TaskNameSet |-> IF k = "availability" THEN "answer" ELSE "none" ]

\* the state in which line 250 starts reading the planner's events
InitPlannerStream ==
    /\ pc = "PlannerStream"
    /\ trace = << "Start" >>
    /\ reply = None
    /\ n_events = 0
    /\ final_response_text = None
    /\ plan_dict = FromKeys
    /\ access_token = None
    /\ client = "none"
    /\ tasks = << >>
    /\ sent = << >>
    /\ completed = NotFollowed
    /\ result = [ k \in TaskNameSet |-> "none" ]
    /\ success_results = << >>
    /\ failures = << >>
    /\ extracted_answers = NoAnswers
    /\ effort_session = "none"
    /\ effort_query = << >>
    /\ effort_response_text = None
    /\ diag = << >>
    /\ ops = << RunAsyncOp(planner_agent_name) >>
    /\ sessions = [ NoSessions EXCEPT ![<< USER_ID, SESSION_ID >>] = << >> ]
    /\ runs = << >>

\* a state in which line 431 starts reading the effort agent's events: the
\* plan asked for availability and effort, the availability call was answered
InitEffortStream ==
    LET plan == ParsePlan(Strip(EffortEntryReply))
        queries == queries_to_run(plan)
        ts == CreateTasks(queries, 1)
        responses == Responses(ts, EffortEntryResult)
        succ == SuccessesOf(ts, responses, 1)
        answers == ExtractLoop(succ, 1, NoAnswers).answers
    IN  /\ pc = "EffortStream"
        /\ trace = << "Start", "Planned", "Dispatched" >>
        /\ reply = EffortEntryReply
        /\ n_events = 0
        /\ final_response_text = Strip(EffortEntryReply)
        /\ plan_dict = plan
        /\ access_token = << "t" >>
        /\ client = "open"
        /\ tasks = ts
        /\ sent = [ i \in 1..Len(ts) |-> Call(queries, ts, i) ]
        /\ result = EffortEntryResult
        /\ completed = NotFollowed
        /\ success_results = succ
        /\ failures = << >>
        /\ extracted_answers = answers
        /\ effort_session = "created"
        /\ effort_query = << plan["ask_total_effort"], answers["availability"] >>
        /\ effort_response_text = None
        /\ diag = << >>
        /\ ops = << RunAsyncOp(planner_agent_name), RefreshOp >> \o PostOps(ts)
                 \o << RunAsyncOp(effort_update_agent_name) >>
        /\ sessions = [ NoSessions EXCEPT ![<< USER_ID, SESSION_ID >>] = << >> ]
        /\ runs = << >>

InitStream ==
    /\ \E evs \in StreamInputs : stream = [ given |-> TRUE, events |-> evs ]
    /\ InitPlannerStream \/ InitEffortStream

NextStream ==
    \/ PlannerSkipsEvent
    \/ PlannerFinalResponse
    \/ PlannerStreamEnds
    \/ PlannerRaises
    \/ EffortSkipsEvent
    \/ EffortFinalResponse
    \/ EffortStreamEnds
    \/ EffortRaises

SpecStream == InitStream /\ [][NextStream]_vars

(***************************************************************************)
(* The fan-out on its own: lines 362-408 from the state in which three     *)
(* calls have been created, with the order in which they settle followed   *)
(***************************************************************************)

\* a planner reply with the four questions
FanoutEntryReply ==
    << "-", " ", "a", "\n", "-", " ", "e", "\n",
       " ", "-", " ", "p", "\n", "-", " ", "t", " " >>

\* the state in which line 365 starts waiting for the three calls
InitFanout ==
    LET plan == ParsePlan(Strip(FanoutEntryReply))
        queries == queries_to_run(plan)
        ts == CreateTasks(queries, 1)
    IN  /\ pc = "Gathering"
        /\ trace = << "Start", "Planned", "Dispatched" >>
        /\ reply = FanoutEntryReply
        /\ n_events = 1
        /\ final_response_text = Strip(FanoutEntryReply)
        /\ plan_dict = plan
        /\ access_token = << "t" >>
        /\ client = "open"
        /\ tasks = ts
        /\ sent = [ i \in 1..Len(ts) |-> Call(queries, ts, i) ]
        /\ result = [ k \in TaskNameSet |-> "pending" ]
        /\ completed = << >>
        /\ success_results = << >>
        /\ failures = << >>
        /\ extracted_answers = NoAnswers
        /\ effort_session = "none"
        /\ effort_query = << >>
        /\ effort_response_text = None
        /\ diag = << >>
        /\ ops = << RunAsyncOp(planner_agent_name), RefreshOp >> \o PostOps(ts)
        /\ stream = AnyStream
        /\ sessions = [ NoSessions EXCEPT ![<< USER_ID, SESSION_ID >>] = << >> ]
        /\ runs = << >>

NextFanout ==
    \/ Settle
    \/ ProcessFailures
    \/ ProcessAnswers

SpecFanout == InitFanout /\ [][NextFanout]_vars

(***************************************************************************)
(* Two invocations of the coroutine in one process: what they do to the    *)
(* sessions of the module-level runner (line 226) and of the effort runner *)
(* each of them creates (line 422)                                         *)
(***************************************************************************)

Runs == { 1, 2 }

RunTag(r) == IF r = 1 THEN "run1" ELSE "run2"

\* SessionKey with the user id left out of the key
SessionKeyNoUser(run) == << USER_ID, run.session_id >>

\* lines 239-241, 251: the session a run creates and reads is found by the
\* user id and session id it was called with
SessionKey(run) == << run.user_id, run.session_id >>

\* the runs whose messages are in a session
Authors_of(session) == { session[i] : i \in 1..Len(session) }

InitRuns ==
    /\ pc = "Concurrent"
    /\ trace = << >>
    /\ reply = None
    /\ n_events = 0
    /\ final_response_text = None
    /\ plan_dict = FromKeys
    /\ access_token = None
    /\ client = "none"
    /\ tasks = << >>
    /\ sent = << >>
    /\ completed = NotFollowed
    /\ result = [ k \in TaskNameSet |-> "none" ]
    /\ success_results = << >>
    /\ failures = << >>
    /\ extracted_answers = NoAnswers
    /\ effort_session = "none"
    /\ effort_query = << >>
    /\ effort_response_text = None
    /\ diag = << >>
    /\ ops = << >>
    /\ stream = AnyStream
    /\ sessions = NoSessions
    /\ runs \in [ Runs -> [ pc : { "Start" }, user_id : UserIds,
                            session_id : SessionIds, seen : { { } },
                            effort_seen : { { } } ] ]

RunVars == << pc, trace, n_events, plannerVars, fanoutVars, effortVars, diag,
              ops, stream >>

\* lines 238-241: create_session on the shared session service. With the key
\* already there the service either raises (and the exception leaves the
\* coroutine, line 239 being outside the try), or puts a new session in the
\* place of the old one, or hands back the old one.
RunCreateSession(r) ==
    LET key == SessionKey(runs[r])
    IN  /\ runs[r].pc = "Start"
        /\ IF sessions[key] = Absent
           THEN /\ sessions' = [ sessions EXCEPT ![key] = << >> ]
                /\ runs' = [ runs EXCEPT ![r].pc = "PlannerStream" ]
           ELSE \/ /\ sessions' = sessions
                   /\ runs' = [ runs EXCEPT ![r].pc = "Raised" ]
                \/ /\ sessions' = [ sessions EXCEPT ![key] = << >> ]
                   /\ runs' = [ runs EXCEPT ![r].pc = "PlannerStream" ]
                \/ /\ sessions' = sessions
                   /\ runs' = [ runs EXCEPT ![r].pc = "PlannerStream" ]
        /\ UNCHANGED RunVars

\* lines 250-252: run_async adds the run's message to the session
RunPlannerSend(r) ==
    LET key == SessionKey(runs[r])
    IN  /\ runs[r].pc = "PlannerStream"
        /\ sessions' = [ sessions EXCEPT ![key] = Append(@, RunTag(r)) ]
        /\ runs' = [ runs EXCEPT ![r].pc = "PlannerReplying" ]
        /\ UNCHANGED RunVars

\* lines 250-261: the planner answers from what the session holds
RunPlannerReply(r) ==
    LET key == SessionKey(runs[r])
    IN  /\ runs[r].pc = "PlannerReplying"
        /\ runs' = [ runs EXCEPT ![r].pc = "Planned",
                                  ![r].seen = Authors_of(sessions[key]) ]
        /\ UNCHANGED << sessions, RunVars >>

\* lines 269-408: parsing, credentials and fan-out use the run's own
\* variables only; the run ends there or goes on to the effort update
RunFanout(r) ==
    /\ runs[r].pc = "Planned"
    /\ \E next \in { "Extracted", "Done", "Aborted" } :
         runs' = [ runs EXCEPT ![r].pc = next ]
    /\ UNCHANGED << sessions, RunVars >>

\* lines 422-436: the effort runner is made anew by each run, and its
\* session service with it, so the effort session holds this run's message
RunEffortUpdate(r) ==
    /\ runs[r].pc = "Extracted"
    /\ \E next \in { "Done", "Aborted" } :
         runs' = [ runs EXCEPT ![r].pc = next,
                               ![r].effort_seen = { RunTag(r) } ]
    /\ UNCHANGED << sessions, RunVars >>

NextRuns ==
    \E r \in Runs :
        \/ RunCreateSession(r)
        \/ RunPlannerSend(r)
        \/ RunPlannerReply(r)
        \/ RunFanout(r)
        \/ RunEffortUpdate(r)

SpecRuns == InitRuns /\ [][NextRuns]_vars

(***************************************************************************)
(* Properties                                                              *)
(***************************************************************************)

\* the outcomes that are failures of a call: transport exception, non-2xx
\* status, body that is not JSON
FailedOutcomes == { "exception", "http_500", "bad_json" }

SomeCallFailed == \E k \in TaskNameSet : result[k] \in FailedOutcomes

TraceHas(st) == \E i \in 1..Len(trace) : trace[i] = st

\* the plan field a backend call is made for
FieldOf(name) ==
    CASE name = "availability"     -> "ask_availability"
      [] name = "past_involvement" -> "ask_past_involvement"
      [] name = "timezone_match"   -> "ask_timezone"

Populated(k) == plan_dict[k] # None /\ plan_dict[k] # << >>

NumPopulated == Cardinality({ i \in 1..Len(keys) : Populated(keys[i]) })

\* C1: once a dispatched backend call has settled as a failure, the run can
\* only abort: no answer is extracted from the calls that succeeded, the
\* effort update stage is never entered, no recommendation is made and the
\* run never completes.
C1_AbortOnAnyFailure ==
    SomeCallFailed =>
        /\ pc \in { "Gathering", "Aborted" }
        /\ extracted_answers = NoAnswers
        /\ effort_session = "none"
        /\ effort_query = << >>
        /\ effort_response_text = None
        /\ ~TraceHas("EffortUpdated")
        /\ ~TraceHas("SkippedEffort")
        /\ ~TraceHas("Recommended")
        /\ ~TraceHas("Done")

\* a run aborted with one call failed and another answered
C1_Witness ==
    /\ pc = "Aborted"
    /\ SomeCallFailed
    /\ \E k \in TaskNameSet : result[k] \in { "answer", "answer_padded" }

\* C2: while a dispatched call is still pending, the dispatcher has
\* classified no outcome, extracted nothing and not aborted, whatever the
\* other calls settled as.
C2_JoinAllBarrier ==
    (\E k \in TaskNameSet : result[k] = "pending") =>
        /\ pc = "Gathering"
        /\ failures = << >>
        /\ success_results = << >>
        /\ extracted_answers = NoAnswers
        /\ client = "open"
        /\ ~TraceHas("Aborted")

\* the first of three calls raised, and the abort came after all three
\* had settled
C2_Witness ==
    /\ pc = "Aborted"
    /\ Len(tasks) = 3
    /\ result[tasks[1]] = "exception"
    /\ result[tasks[2]] \notin FailedOutcomes \cup { "pending" }
    /\ Len(failures) = 1

\* C3: when the dispatcher aborts on failures, the failure messages hold
\* exactly one message for each call that failed, naming its key, and none
\* for a call that succeeded; the same lines are printed.
C3_EveryFailureReported ==
    (pc = "Aborted" /\ SomeCallFailed) =>
        \A k \in TaskNameSet :
            LET n == IF result[k] \in FailedOutcomes THEN 1 ELSE 0
            IN  /\ Cardinality({ i \in 1..Len(failures) : failures[i].task = k }) = n
                /\ Cardinality({ i \in 1..Len(diag) : diag[i].task = k }) = n

\* one HTTP 500 among three calls: one message, for that call
C3_Witness ==
    /\ pc = "Aborted"
    /\ result = [ availability |-> "answer", past_involvement |-> "http_500",
                  timezone_match |-> "answer" ]
    /\ Len(failures) = 1
    /\ failures[1].task = "past_involvement"

\* C4: once the dispatcher has created its calls, there is exactly one call
\* for each of availability, past involvement and timezone whose plan field
\* is present and non-empty, none for the others, none for the effort-delta
\* field, and each call carries its own field; 3 populated fields give 2
\* calls and 4 give 3. Before that no call exists.
C4_DispatchSet ==
    IF client = "none"
    THEN sent = << >> /\ tasks = << >>
    ELSE /\ Len(sent) = Len(tasks)
         /\ \A name \in TaskNameSet :
              Cardinality({ i \in 1..Len(sent) : sent[i].task = name })
                = IF Populated(FieldOf(name)) THEN 1 ELSE 0
         /\ \A i \in 1..Len(sent) :
              /\ sent[i].task \in TaskNameSet
              /\ sent[i].task = tasks[i]
              /\ sent[i].text = plan_dict[FieldOf(sent[i].task)]
         /\ (NumPopulated = 3 => Len(sent) = 2)
         /\ (NumPopulated = 4 => Len(sent) = 3)

\* a plan without the timezone question: two calls
C4_Witness ==
    /\ client # "none"
    /\ NumPopulated = 3
    /\ plan_dict["ask_timezone"] = None
    /\ Len(sent) = 2

IsPrefix(p, q) == Len(p) <= Len(q) /\ SubSeq(q, 1, Len(p)) = p

\* the two complete paths of the pipeline state machine
FullPaths ==
    { << "Start", "Planned", "Dispatched", step, "Recommended", "Done" >> :
        step \in { "EffortUpdated", "SkippedEffort" } }

\* C5, for the runs that dispatched backend calls: the states a run has
\* passed through are a prefix of Start, Planned, Dispatched, EffortUpdated
\* or SkippedEffort, Recommended, Done, possibly left for Aborted; a run
\* that is done has passed through all of them, the recommendation stage
\* included.
C5_PipelineStateMachine ==
    (pc # "Done" \/ tasks # << >>) =>
        /\ \E path \in FullPaths :
             \/ IsPrefix(trace, path)
             \/ /\ trace # << >>
                /\ trace[Len(trace)] = "Aborted"
                /\ IsPrefix(SubSeq(trace, 1, Len(trace) - 1), path)
        /\ (pc = "Done" => trace \in FullPaths)

\* C6: a run that completed its fan-out without an effort-delta instruction
\* (or without an availability answer) created no effort agent session,
\* made no effort round-trip and went on to the recommendation stage.
C6_SkipFeedsRecommendation ==
    ( /\ pc = "Done"
      /\ tasks # << >>
      /\ \/ ~Populated("ask_total_effort")
         \/ ~Truthy(extracted_answers["availability"]) ) =>
        /\ effort_session = "none"
        /\ effort_query = << >>
        /\ effort_response_text = None
        /\ TraceHas("SkippedEffort")
        /\ TraceHas("Recommended")

\* the lines of a reply that are not empty after trimming, as they are
NonBlankLines(text) == SelectSeq(Split(text), LAMBDA l : Strip(l) # << >>)

\* a line without one leading "- " marker
WithoutMarker(l) ==
    IF Len(l) >= 2 /\ SubSeq(l, 1, 2) = << "-", " " >>
    THEN SubSeq(l, 3, Len(l))
    ELSE l

KeySet == { "ask_availability", "ask_total_effort", "ask_past_involvement",
            "ask_timezone" }

\* C7 as stated: each of the four keys holds the non-blank line of its
\* position with one leading "- " removed, or is absent.
C7_PlanParsingAsStated ==
    pc = "Parsed" =>
        /\ DOMAIN plan_dict = KeySet
        /\ LET ls == NonBlankLines(reply)
           IN  \A i \in 1..4 :
                 plan_dict[keys[i]] =
                    IF i <= Len(ls) THEN WithoutMarker(ls[i]) ELSE None

\* C7 amended: each of the four keys holds the non-blank line of its
\* position, trimmed, with one leading "- " removed and the rest trimmed
\* again, or is absent; lines beyond the fourth are ignored.
C7_PlanParsing ==
    pc = "Parsed" =>
        /\ DOMAIN plan_dict = KeySet
        /\ LET ls == NonBlankLines(reply)
           IN  \A i \in 1..4 :
                 plan_dict[keys[i]] =
                    IF i <= Len(ls) THEN Strip(WithoutMarker(Strip(ls[i])))
                    ELSE None

\* a reply of five lines, one indented and with a repeated marker
C7_Witness ==
    /\ pc = "Parsed"
    /\ Len(NonBlankLines(reply)) = 5
    /\ \E i \in 1..4 :
         /\ Head(NonBlankLines(reply)[i]) = " "
         /\ plan_dict[keys[i]] = << "a" >>
    /\ \E i \in 1..4 : plan_dict[keys[i]] = << "-", " ", "b" >>

\* C8: a reply with k < 4 non-blank lines is parsed into a plan whose
\* first k keys hold those lines and whose other keys are absent; the
\* plan has its four keys, so that no lookup fails.
C8_GracefulTruncation ==
    (pc = "Parsed" /\ Len(NonBlankLines(reply)) < 4) =>
        LET k == Len(NonBlankLines(reply))
        IN  /\ DOMAIN plan_dict = KeySet
            /\ \A i \in 1..4 :
                 IF i <= k
                 THEN /\ Truthy(plan_dict[keys[i]])
                      /\ plan_dict[keys[i]]
                           = Strip(WithoutMarker(Strip(NonBlankLines(reply)[i])))
                 ELSE plan_dict[keys[i]] = None

\* a reply of three questions among blank lines: no timezone key
C8_Witness ==
    /\ pc = "Parsed"
    /\ Len(Split(reply)) = 5
    /\ Len(NonBlankLines(reply)) = 3
    /\ plan_dict["ask_past_involvement"] # None
    /\ plan_dict["ask_timezone"] = None

\* C9: as long as the planner has given no final response, no credential
\* is fetched, no backend call exists and no later stage runs; when its
\* stream has ended so, the next step reports that no response was
\* produced and ends the run.
C9_PlanningNoResponseFatal ==
    /\ [](final_response_text = None =>
            /\ pc \in { "Start", "PlannerStream", "PlannerDone", "Aborted" }
            /\ access_token = None
            /\ client = "none"
            /\ tasks = << >>
            /\ sent = << >>
            /\ effort_session = "none"
            /\ ~TraceHas("Planned")
            /\ ~TraceHas("Recommended"))
    /\ [][(pc = "PlannerDone" /\ final_response_text = None) =>
            /\ pc' = "Aborted"
            /\ diag' = Append(diag, NoFinalResponseMsg)]_vars

\* a stream of events that ended without a final response
C9_Witness ==
    /\ pc = "Aborted"
    /\ final_response_text = None
    /\ n_events = MaxEvents
    /\ diag[Len(diag)] = NoFinalResponseMsg

\* C10: once the effort update stage is entered and as long as its agent
\* has given no final response, the run is not done and nothing is
\* recommended; when its stream has ended so, the next step reports it
\* and aborts the run.
C10_EffortNoResponseFatal ==
    /\ []((effort_session = "created" /\ effort_response_text = None) =>
            /\ pc \in { "EffortStream", "EffortDone", "Aborted" }
            /\ ~TraceHas("EffortUpdated")
            /\ ~TraceHas("Recommended")
            /\ ~TraceHas("Done"))
    /\ [][(pc = "EffortDone" /\ effort_response_text = None) =>
            /\ pc' = "Aborted"
            /\ trace'[Len(trace')] = "Aborted"
            /\ diag' = Append(diag, NoEffortResponseMsg)]_vars

\* an effort stream that ended without a final response
C10_Witness ==
    /\ pc = "Aborted"
    /\ effort_session = "created"
    /\ effort_response_text = None
    /\ diag[Len(diag)] = NoEffortResponseMsg

(***************************************************************************)
(* Malformed payloads, retries, credentials, outcome partition             *)
(***************************************************************************)

\* 2xx bodies that are valid JSON without queryResult.responseMessages[0].text.text[0]
MissingPathOutcomes == { "no_query_result", "no_messages" }

\* the gather has returned and the outcome of call k has been handled
Processed(k) == result[k] \notin { "none", "pending" } /\ pc # "Gathering"

HasFailure(k, kind) ==
    \E i \in 1..Len(failures) : failures[i] = [ task |-> k, kind |-> kind ]

LastDiag == IF diag = << >> THEN Msg("") ELSE diag[Len(diag)]

Count(o) == Cardinality({ i \in 1..Len(ops) : ops[i] = o })

AllOps ==
    { RunAsyncOp(planner_agent_name), RunAsyncOp(effort_update_agent_name),
      RefreshOp } \cup { PostOp(k) : k \in TaskNameSet }

\* the diagnostics that report a failure (lines 270, 391-397, 442, 447, 450)
FailureMsgs ==
    { NoFinalResponseMsg, AbortingMsg, NoEffortResponseMsg,
      ApiInvocationErrorMsg, AgentExecutionErrorMsg }
    \cup { [ msg |-> kind, task |-> k ] :
             kind \in { "exception", "http_status", "json_decode" },
             k \in TaskNameSet }

\* C12: the planner agent, the effort agent and the credential refresh are
\* each started at most once in a run and each sub-question is sent at most
\* once; a step that reports a failure ends in Aborted; and from Aborted no
\* agent or backend call is started.
C12_NoRetry ==
    /\ [](\A o \in AllOps : Count(o) <= 1)
    /\ [](\A k \in TaskNameSet :
            Cardinality({ i \in 1..Len(sent) : sent[i].task = k }) <= 1)
    /\ [][(diag' # diag /\ LastDiag' \in FailureMsgs) => pc' = "Aborted"]_vars
    /\ [][pc = "Aborted" =>
            UNCHANGED << ops, sent, tasks, result, effort_session, sessions >>]_vars

\* a run aborted by a failed backend call, having started the planner, the
\* refresh and two sub-questions once each
C12_Witness ==
    /\ pc = "Aborted"
    /\ SomeCallFailed
    /\ Len(sent) = 2
    /\ Count(RunAsyncOp(planner_agent_name)) = 1
    /\ Count(RefreshOp) = 1
    /\ \A i \in 1..Len(tasks) : Count(PostOp(tasks[i])) = 1

\* position of the first occurrence of o in ops, 0 when there is none
FirstIndex(o) ==
    IF Count(o) = 0 THEN 0
    ELSE CHOOSE i \in 1..Len(ops) :
           ops[i] = o /\ \A j \in 1..(i - 1) : ops[j] # o

NumPosts == Cardinality({ i \in 1..Len(ops) : ops[i].op = "post" })

\* C13: a backend call exists only once the refresh has been made and has
\* given a non-empty token, and the refresh precedes every call; when the
\* refresh raises or gives an empty token, no call is created, the run is
\* aborted with the API-invocation diagnostic and neither the fan-out nor
\* the effort stage is entered.
C13_CredentialBeforeDispatch ==
    /\ (NumPosts > 0 \/ sent # << >> \/ tasks # << >> \/ client # "none") =>
          /\ Truthy(access_token)
          /\ Count(RefreshOp) = 1
          /\ \A k \in TaskNameSet :
                Count(PostOp(k)) > 0 => FirstIndex(RefreshOp) < FirstIndex(PostOp(k))
    /\ (TraceHas("Planned") /\ ~Truthy(access_token)) =>
          /\ pc \in { "Planned", "Aborted" }
          /\ NumPosts = 0
          /\ sent = << >>
          /\ tasks = << >>
          /\ client = "none"
          /\ effort_session = "none"
          /\ ~TraceHas("Dispatched")
          /\ ~TraceHas("Done")
    /\ (Count(RefreshOp) = 1 /\ ~Truthy(access_token)) =>
          /\ pc = "Aborted"
          /\ LastDiag = ApiInvocationErrorMsg

\* the refresh gave an empty token although the plan has a question to send
C13_Witness ==
    /\ pc = "Aborted"
    /\ Count(RefreshOp) = 1
    /\ access_token = << >>
    /\ Populated("ask_availability")
    /\ sent = << >>

DispatchedKeys == { tasks[i] : i \in 1..Len(tasks) }

SuccessKeys == { success_results[i].task : i \in 1..Len(success_results) }

FailedKeys == { failures[i].task : i \in 1..Len(failures) }

AnsweredKeys == { k \in TaskNameSet : extracted_answers[k] # None }

\* C14: once the gather has been processed, every dispatched call is in
\* exactly one of the classes transport failure, HTTP status, malformed body
\* and success; the successful and the failed keys are disjoint and make up
\* the dispatched keys; and with no failure the answers hold one entry for
\* each dispatched key and for no other key.
C14_OutcomePartition ==
    (tasks # << >> /\ pc # "Gathering") =>
        /\ \A k \in DispatchedKeys :
              Cardinality({ i \in 1..Len(failures) : failures[i].task = k })
              + Cardinality({ i \in 1..Len(success_results) :
                                success_results[i].task = k }) = 1
        /\ \A i \in 1..Len(failures) :
              failures[i].kind \in { "exception", "http_status", "json_decode" }
        /\ SuccessKeys \cap FailedKeys = { }
        /\ SuccessKeys \cup FailedKeys = DispatchedKeys
        /\ failures = << >> => AnsweredKeys = DispatchedKeys

(***************************************************************************)
(* Sequencing of the stages                                                *)
(***************************************************************************)

PendingCalls == { k \in TaskNameSet : result[k] = "pending" }

\* external operations started and not yet completed: the planner stream
\* (lines 250-261), the POSTs (359-365), the effort stream (431-436); the
\* refresh of line 316 is a blocking call
InFlight ==
    (IF pc = "PlannerStream" THEN 1 ELSE 0)
    + Cardinality(PendingCalls)
    + (IF pc = "EffortStream" THEN 1 ELSE 0)

\* C15: no backend call is created before the planner round-trip is over;
\* the effort round-trip is started only when every backend call has
\* settled; and more than one external operation is in flight only while
\* the fan-out is being gathered.
C15_StageSequencing ==
    /\ pc \in { "Start", "PlannerStream", "PlannerDone" } =>
          NumPosts = 0 /\ tasks = << >> /\ client = "none"
    /\ \A k \in TaskNameSet :
          Count(PostOp(k)) > 0 =>
              /\ FirstIndex(RunAsyncOp(planner_agent_name)) = 1
              /\ FirstIndex(PostOp(k)) > 1
              /\ final_response_text # None
    /\ Count(RunAsyncOp(effort_update_agent_name)) > 0 =>
          /\ PendingCalls = { }
          /\ tasks # << >>
          /\ \A k \in DispatchedKeys :
                /\ result[k] \notin { "none", "pending" }
                /\ FirstIndex(PostOp(k)) <
                     FirstIndex(RunAsyncOp(effort_update_agent_name))
    /\ pc = "EffortStream" => Count(RunAsyncOp(effort_update_agent_name)) = 1
    /\ InFlight > 1 => pc = "Gathering"

\* the effort round-trip under way after three backend calls
C15_Witness ==
    /\ pc = "EffortStream"
    /\ Len(tasks) = 3
    /\ PendingCalls = { }
    /\ InFlight = 1

(***************************************************************************)
(* The event-stream consumer                                               *)
(***************************************************************************)

\* the loop being run: the effort loop once the effort agent was started
ExpectedAgent ==
    IF Count(RunAsyncOp(effort_update_agent_name)) > 0
    THEN effort_update_agent_name
    ELSE planner_agent_name

\* the response variable of that loop (lines 246, 429)
Response ==
    IF ExpectedAgent = effort_update_agent_name
    THEN effort_response_text
    ELSE final_response_text

LoopDone == pc \in { "PlannerDone", "EffortDone" }

\* final, authored by the expected agent, with content that has parts
Qualifies(ev) ==
    /\ ev.final
    /\ ev.author = ExpectedAgent
    /\ ev.content \in { "Text", "TextNone" }

\* index of the first qualifying event of the stream, 0 when there is none
FirstQualifying ==
    IF \E i \in 1..Len(stream.events) : Qualifies(stream.events[i])
    THEN CHOOSE i \in 1..Len(stream.events) :
           /\ Qualifies(stream.events[i])
           /\ \A j \in 1..(i - 1) : ~Qualifies(stream.events[j])
    ELSE 0

\* C16 as stated: when the loop has ended, the response is the first text
\* segment of the first qualifying event and no event after it was
\* consumed; without such an event the response is absent.
C16_StreamConsumerAsStated ==
    (stream.given /\ LoopDone) =>
        IF FirstQualifying = 0
        THEN Response = None /\ n_events = Len(stream.events)
        ELSE /\ Response = stream.events[FirstQualifying].text
             /\ n_events = FirstQualifying

\* C16, amended: the response is the first text segment of the first
\* qualifying event with its surrounding whitespace removed; the events
\* before it are skipped and leave the response absent, none after it is
\* consumed; without a qualifying event the whole stream is consumed and the
\* response is absent; and when the first part of the qualifying event has no
\* text the loop raises and the stage fails with the response absent.
C16_StreamConsumer ==
    stream.given =>
        /\ n_events <= (IF FirstQualifying = 0 THEN Len(stream.events)
                        ELSE FirstQualifying)
        /\ pc \in { "PlannerStream", "EffortStream" } => Response = None
        /\ LoopDone =>
              IF FirstQualifying = 0
              THEN Response = None /\ n_events = Len(stream.events)
              ELSE /\ stream.events[FirstQualifying].content = "Text"
                   /\ Response = Strip(stream.events[FirstQualifying].text)
                   /\ n_events = FirstQualifying
        /\ pc = "Aborted" =>
              /\ FirstQualifying > 0
              /\ stream.events[FirstQualifying].content = "TextNone"
              /\ n_events = FirstQualifying
              /\ Response = None

\* the first event was skipped and the second, with padded text, accepted
C16_Witness ==
    /\ stream.given
    /\ LoopDone
    /\ Len(stream.events) = 2
    /\ FirstQualifying = 2
    /\ stream.events[2].text = << " ", "b" >>
    /\ Response = << "b" >>

\* the events consumed so far that the loop did not accept and that carry
\* an error code
SkippedErrorEvents ==
    { i \in 1..n_events :
        /\ i <= Len(stream.events)
        /\ i # FirstQualifying
        /\ stream.events[i].error_code }

ErrorReports == { i \in 1..Len(diag) : diag[i] = ErrorEventMsg }

\* C17: in the planning stage and in the effort update stage alike, every
\* event with an error that the loop has passed over has been reported by
\* one diagnostic.
C17_ErrorEventsReported ==
    stream.given => Cardinality(ErrorReports) = Cardinality(SkippedErrorEvents)

(***************************************************************************)
(* Termination                                                             *)
(***************************************************************************)

Terminal == { "Done", "Aborted" }

\* C18: every run reaches Done or Aborted (so no other state is one in
\* which a run can stay), and no step is taken from Done or from Aborted.
C18_Termination ==
    /\ <>(pc \in Terminal)
    /\ [][pc \notin Terminal]_vars
    /\ [](pc \in Terminal => [](pc \in Terminal))

\* a run completed through the effort update after three backend calls
C18_Witness ==
    /\ pc = "Done"
    /\ Len(tasks) = 3
    /\ Truthy(effort_response_text)
    /\ ~ENABLED Next

(***************************************************************************)
(* Concurrent runs                                                         *)
(***************************************************************************)

\* what run r gets when it runs alone: its session is created, the planner
\* sees the run's own message and no other, and so does the effort agent
OutcomeAsAlone(r) ==
    /\ runs[r].pc # "Raised"
    /\ runs[r].pc \in { "Planned", "Extracted", "Done", "Aborted" } =>
          runs[r].seen = { RunTag(r) }
    /\ runs[r].effort_seen \subseteq { RunTag(r) }

\* the user id and session id run r was called with
CalledWith(r) == << runs[r].user_id, runs[r].session_id >>

Positions ==
    { "Start", "PlannerStream", "PlannerDone", "Planned", "Credentialed",
      "Gathering", "Extracted", "EffortStream", "EffortDone", "Done",
      "Aborted" }

HasDiag(m) == \E i \in 1..Len(diag) : diag[i] = m

\* C20: from the creation of the planner session on, no exception leaves
\* the coroutine; a run that has met a failure is Aborted, never Done, and
\* its last diagnostic names the failure: the agent-execution error or the
\* missing final response in the planning stage, the API-invocation error
\* for a credential failure, a failed call, a payload whose extraction
\* raises and an exception of the effort stage, together with one line per
\* failed call.
C20_FailuresAreDiagnosed ==
    /\ pc \in Positions
    /\ pc = "Aborted" =>
          /\ trace[Len(trace)] = "Aborted"
          /\ ~TraceHas("Done")
          /\ LastDiag \in FailureMsgs
          /\ ~TraceHas("Planned") =>
                LastDiag \in { AgentExecutionErrorMsg, NoFinalResponseMsg }
          /\ TraceHas("Planned") =>
                LastDiag \in { ApiInvocationErrorMsg, NoEffortResponseMsg }
    /\ (Count(RefreshOp) = 1 /\ ~Truthy(access_token)) =>
          pc = "Aborted" /\ LastDiag = ApiInvocationErrorMsg
    /\ (SomeCallFailed /\ pc # "Gathering") =>
          /\ pc = "Aborted"
          /\ LastDiag = ApiInvocationErrorMsg
          /\ HasDiag(AbortingMsg)
          /\ \A k \in TaskNameSet :
                result[k] \in FailedOutcomes =>
                    HasDiag([ msg |-> Classify(result[k]), task |-> k ])
    /\ (~SomeCallFailed /\ pc # "Gathering"
          /\ \E k \in TaskNameSet : result[k] = "no_messages") =>
          pc = "Aborted" /\ LastDiag = ApiInvocationErrorMsg
    /\ pc = "Done" => \A i \in 1..Len(diag) : diag[i] \notin FailureMsgs

\* the effort stage raised and the run ended on the API-invocation error
C20_Witness ==
    /\ pc = "Aborted"
    /\ effort_session = "created"
    /\ effort_response_text = None
    /\ LastDiag = ApiInvocationErrorMsg
    /\ diag = << ApiInvocationErrorMsg >>

(***************************************************************************)
(* The backend calls of a run                                              *)
(***************************************************************************)

\* C21: the calls of a run carry pairwise different session ids, each drawn
\* for that call and none the id of the planner session or of the effort
\* session; each carries the question parsed for its key, unchanged, and the
\* time zone "America/Chicago".
C21_FreshCorrelationIds ==
    /\ \A i, j \in 1..Len(sent) :
          i # j => sent[i].session # sent[j].session
    /\ \A i \in 1..Len(sent) :
          /\ sent[i].session.kind = "uuid4"
          /\ sent[i].session \notin { PlannerSessionId, EffortSessionId }
          /\ sent[i].text = plan_dict[FieldOf(sent[i].task)]
          /\ Truthy(sent[i].text)
          /\ sent[i].timeZone = "America/Chicago"

\* three calls were created and the effort session as well
C21_Witness ==
    /\ Len(sent) = 3
    /\ effort_session = "created"
    /\ Cardinality({ sent[i].session : i \in 1..Len(sent) }) = 3

\* C22: in whatever order the calls settle, each failure record, each success
\* record and each extracted answer stands under the key of the call whose
\* outcome it is
C22_AttributionByKey ==
    pc # "Gathering" =>
        /\ \A i \in 1..Len(failures) :
              /\ failures[i].task \in DispatchedKeys
              /\ failures[i].kind = Classify(result[failures[i].task])
        /\ \A i \in 1..Len(success_results) :
              /\ success_results[i].task \in DispatchedKeys
              /\ success_results[i].response = result[success_results[i].task]
        /\ \A k \in TaskNameSet :
              extracted_answers[k] # None =>
                  /\ k \in DispatchedKeys
                  /\ extracted_answers[k] = ExtractAnswer(Body(result[k]))

\* three calls with pairwise different outcomes settled in the reverse of the
\* order of their creation, and the outcomes were processed with a failure
\* and a success among them
C22_Witness ==
    /\ pc # "Gathering"
    /\ Len(tasks) = 3
    /\ completed = << tasks[3], tasks[2], tasks[1] >>
    /\ \A i, j \in 1..3 : i # j => result[tasks[i]] # result[tasks[j]]
    /\ failures # << >>
    /\ success_results # << >>
\* every call that was created settled as a success of lines 374-384
AllSucceeded ==
    /\ pc \notin { "Gathering" }
    /\ tasks # << >>
    /\ \A k \in DispatchedKeys : Classify(result[k]) = "success"

\* lines 401-414 have been passed, or left by an exception
EffortDecided == AllSucceeded /\ pc # "Extracted"

\* C23: once every dispatched call has succeeded, the effort update stage is
\* executed exactly when the effort-delta field is non-empty and the
\* availability question was dispatched, and an availability response
\* without answer text makes the placeholder the schedule of the stage
C23_EffortStageTrigger ==
    EffortDecided =>
        /\ effort_session = "created"
              <=> /\ Truthy(plan_dict["ask_total_effort"])
                  /\ "availability" \in DispatchedKeys
        /\ /\ effort_session = "created"
           /\ result["availability"] \in { "empty_text", "no_query_result" }
           => effort_query = << plan_dict["ask_total_effort"], Placeholder >>
\* the planner reply has been parsed (lines 274-289)
Parsed == \E i \in 1..Len(trace) : trace[i] = "Planned"

\* lines 329-340: no entry of queries_to_run is a question to send
NoQuestion(plan) ==
    \A k \in TaskNameSet : ~Truthy(queries_to_run(plan)[k])

\* C24: with a parsed plan none of whose three questions is non-empty, no
\* backend call is ever created and the effort update stage is never
\* entered, whatever the effort-delta field holds; the run ends only after
\* the credential refresh, and once the refresh has given a token it ends
\* Done with the no-questions report as its last diagnostic and no failure
\* diagnostic at all.
C24_EmptyDispatchSet ==
    Parsed /\ NoQuestion(plan_dict) =>
        /\ NumPosts = 0
        /\ tasks = << >>
        /\ sent = << >>
        /\ effort_session = "none"
        /\ Count(RunAsyncOp(effort_update_agent_name)) = 0
        /\ pc \in { "Planned", "Credentialed", "Done", "Aborted" }
        /\ pc \in { "Credentialed", "Done" } =>
              Count(RefreshOp) = 1 /\ HasToken(access_token)
        /\ pc = "Done" =>
              /\ LastDiag = NoQuestionsMsg
              /\ \A m \in FailureMsgs : ~HasDiag(m)
              /\ client = "closed"
        /\ pc = "Aborted" =>
              ~HasToken(access_token) /\ LastDiag = ApiInvocationErrorMsg

\* a run whose planner reply was empty has ended after the refresh with the
\* no-questions report
C24_Witness ==
    /\ Parsed
    /\ NoQuestion(plan_dict)
    /\ final_response_text = << >>
    /\ Count(RefreshOp) = 1
    /\ pc = "Done"
    /\ HasDiag(NoQuestionsMsg)
\* the calls have been created, or found to be none (lines 338-362)
Dispatched ==
    \/ \E i \in 1..Len(trace) : trace[i] = "Dispatched"
    \/ HasDiag(NoQuestionsMsg)

\* C25: a planner event with an error code is reported and the loop goes on
\* reading (nothing but the count of events and the diagnostics changes);
\* the reports of such events precede every other diagnostic, and the plan
\* and the calls created are those of the accepted reply alone, whether or
\* not error events came before it.
C25_ErrorEventsNotFatal ==
    /\ [][ pc = "PlannerStream" /\ diag' = Append(diag, ErrorEventMsg) =>
             /\ pc' = "PlannerStream"
             /\ n_events' = n_events + 1
             /\ UNCHANGED << trace, plannerVars, fanoutVars, effortVars, ops,
                             sessions, envVars >> ]_vars
    /\ [](\A i \in 1..Len(diag) :
            diag[i] = ErrorEventMsg =>
                \A j \in 1..i : diag[j] = ErrorEventMsg)
    /\ [](Parsed =>
            /\ final_response_text = Strip(reply)
            /\ plan_dict = ParsePlan(final_response_text))
    /\ [](Parsed /\ Dispatched =>
            /\ tasks = CreateTasks(queries_to_run(plan_dict), 1)
            /\ sent = [ i \in 1..Len(tasks) |->
                          Call(queries_to_run(plan_dict), tasks, i) ]
            /\ SubSeq(ops, 1, 2 + Len(tasks))
                 = << RunAsyncOp(planner_agent_name), RefreshOp >>
                   \o PostOps(tasks))

\* the planner's final response was accepted after an event with an error
\* code had been reported, and three calls were created from it
C25_Witness ==
    /\ diag = << ErrorEventMsg >>
    /\ pc = "Gathering"
    /\ Len(tasks) = 3
    /\ n_events = 2
\* C26: the fan-out is left only when every call created has settled, by
\* whichever way it is left; the client is closed, and the run is ended,
\* only with no call pending, and a run that created calls has closed the
\* client when it has ended.
C26_NoCallOutlivesDispatcher ==
    /\ [][ pc = "Gathering" /\ pc' # "Gathering" =>
             /\ PendingCalls = { }
             /\ result' = result
             /\ \A k \in DispatchedKeys : result[k] \in Outcomes ]_vars
    /\ [](client = "closed" \/ pc \in Terminal =>
            /\ PendingCalls = { }
            /\ \A k \in DispatchedKeys : result[k] \in Outcomes)
    /\ [](pc \in Terminal /\ tasks # << >> => client = "closed")
    /\ [](client = "closed" => pc \in Terminal)

\* three calls were created and all succeeded, the processing of their
\* outcomes raised, and the run has ended with the client closed
C26_Witness ==
    /\ pc = "Aborted"
    /\ client = "closed"
    /\ Len(tasks) = 3
    /\ failures = << >>
    /\ Len(success_results) = 3
    /\ LastDiag = ApiInvocationErrorMsg
====
